---- MODULE Spec2Model ----
(***************************************************************************)
(* A model of scripts/voice-wrapper.py: the Pane Mirror (GET /stream), the *)
(* Input Injector (POST /send, POST /key) and the Command Catalog Builder  *)
(* (GET /commands).                                                        *)
(*                                                                         *)
(* Text is a sequence of one-character strings, so that json.dumps, the    *)
(* regular expressions of _parse_skill_md and the lexicographic sort are   *)
(* computed character by character.                                        *)
(***************************************************************************)
EXTENDS Integers, Sequences, FiniteSets, TLC

\* ------------------------------------------------------------------ bounds
\* Number of /stream subscriptions the model opens.
NStreams == 2
\* Number of tmux send-keys invocations the injector makes.
MaxLog == 3

\* Number of descriptor files on disk at a time.
MaxFiles == 3
\* Number of GET /commands requests between two changes of the disk.
MaxRequests == 2

Streams == 1..NStreams

\* ---------------------------------------------------------- text helpers
Last(s) == s[Len(s)]
Front(s) == SubSeq(s, 1, Len(s) - 1)

RECURSIVE Flatten(_)
Flatten(ss) == IF ss = <<>> THEN <<>> ELSE Head(ss) \o Flatten(Tail(ss))

\* ----------------------------------------------------------- Pane Mirror
\* Contents the pane of the tmux session may show ("\n", a quote and a
\* backslash are there for json.dumps to escape).
PaneTexts ==
    { <<>>,
      <<"A", "\n", "B">>,
      <<"A", "\n", "\"", "\\">> }

\* json.dumps(current) of a str with the default ensure_ascii: the text in
\* double quotes with the quote, the backslash and the newline escaped.
JsonEscape(c) ==
    CASE c = "\"" -> <<"\\", "\"">>
      [] c = "\\" -> <<"\\", "\\">>
      [] c = "\n" -> <<"\\", "n">>
      [] OTHER    -> <<c>>

JsonDumpsRaw(text) == <<"\"">> \o text \o <<"\"">>

JsonDumps(text) ==
    <<"\"">> \o Flatten([i \in 1..Len(text) |-> JsonEscape(text[i])]) \o <<"\"">>

\* The event the generator yields: f"data: {json.dumps(current)}\n\n".
SseFrame(text) == <<"d", "a", "t", "a", ":", " ">> \o JsonDumps(text) \o <<"\n", "\n">>

\* What the page's EventSource hands to onmessage as e.data: the frame without
\* its "data: " field name and the blank line ending the event; <<>> (no
\* event) for a frame that is not one data line.
SseData(frame) ==
    IF /\ Len(frame) >= 8
       /\ SubSeq(frame, 1, 6) = <<"d", "a", "t", "a", ":", " ">>
       /\ SubSeq(frame, Len(frame) - 1, Len(frame)) = <<"\n", "\n">>
       /\ \A i \in 7..(Len(frame) - 2) : frame[i] # "\n"
    THEN << SubSeq(frame, 7, Len(frame) - 2) >>
    ELSE <<>>

\* JSON.parse of a JSON string literal: <<text>>, or <<>> when the data is not
\* a well-formed string literal.
RECURSIVE JsonUnescape(_)
JsonUnescape(body) ==
    IF body = <<>> THEN << <<>> >>
    ELSE IF Head(body) = "\"" \/ Head(body) = "\n" THEN <<>>
    ELSE IF Head(body) = "\\" THEN
        IF Len(body) < 2 THEN <<>>
        ELSE LET e == body[2]
                 rest == JsonUnescape(SubSeq(body, 3, Len(body)))
                 c == CASE e = "n" -> <<"\n">>
                        [] e = "\"" -> <<"\"">>
                        [] e = "\\" -> <<"\\">>
                        [] OTHER -> <<>>
             IN IF rest = <<>> \/ c = <<>> THEN <<>> ELSE << c \o rest[1] >>
    ELSE LET rest == JsonUnescape(Tail(body))
         IN IF rest = <<>> THEN <<>> ELSE << <<Head(body)>> \o rest[1] >>

JsonParse(data) ==
    IF Len(data) >= 2 /\ Head(data) = "\"" /\ Last(data) = "\""
    THEN JsonUnescape(SubSeq(data, 2, Len(data) - 1))
    ELSE <<>>

\* The client's view of one frame: <<text>> or <<>>.
ClientText(frame) ==
    LET d == SseData(frame) IN IF d = <<>> THEN <<>> ELSE JsonParse(d[1])

\* Outcomes of one subprocess.run of tmux.  "ok": exit status 0.  "exit1":
\* tmux ran and exited non-zero (no check=True, so run() returns).
\* "raise": run() raised, TimeoutExpired after the 5 s timeout or OSError
\* when the binary could not be started.
Outcomes == {"ok", "exit1", "raise"}

\* result.stdout of capture-pane: the pane on success, nothing when tmux
\* exits non-zero (its message goes to stderr).
CaptureStdout(out, shown) == IF out = "ok" THEN shown ELSE <<>>

\* A run that raised is handled as one that returned.
RaisesNever(out) == FALSE

Raises(out) == out = "raise"

\* prev starts as the empty text instead of None.
ChangedFromEmpty(cur, prv) == cur # (IF prv = <<>> THEN <<>> ELSE prv[1])

\* `current != prev`, prev being None (<<>>) or a str (<<text>>).
ChangedAlways(cur, prv) == TRUE

Changed(cur, prv) == <<cur>> # prv

VARIABLES
    pane,       \* what the tmux pane shows
    pc,         \* per stream: where its event_generator is
    prev,       \* per stream: the generator's prev, <<>> for None
    current,    \* per stream: the generator's current
    cycle,      \* per stream: <<>> or <<the record of its latest capture cycle>>
    lastEvent,  \* per stream: <<>> or <<the latest frame it yielded>>
    tmux,       \* the send-keys invocations made so far, in order
    replies,    \* the outcomes of the /send and /key calls, in order
    disk,       \* the descriptor files present (indices of FilePool)
    listings    \* the responses of GET /commands since disk last changed

vars == <<pane, pc, prev, current, cycle, lastEvent, tmux, replies, disk, listings>>
injectVars == <<tmux, replies>>
catalogVars == <<disk, listings>>

\* The record of one capture cycle of a stream.  out, stdout: how the
\* subprocess.run ended and what it captured; base: prev when the cycle began;
\* before: <<the text of the stream's latest capture that returned>> before
\* this cycle, <<>> if none; emitted: the frames yielded in the cycle.
CycleRecord(out, stdout, base, before, emitted) ==
    [out |-> out, stdout |-> stdout, base |-> base, before |-> before,
     emitted |-> emitted]

\* The text of the latest capture of stream s that returned, as an option.
LatestCapture(s) ==
    IF cycle[s] = <<>> THEN <<>>
    ELSE IF Raises(cycle[s][1].out) THEN cycle[s][1].before
    ELSE <<cycle[s][1].stdout>>

Init ==
    /\ pane \in PaneTexts
    /\ pc = [s \in Streams |-> "idle"]
    /\ prev = [s \in Streams |-> <<>>]
    /\ current = [s \in Streams |-> <<>>]
    /\ cycle = [s \in Streams |-> <<>>]
    /\ lastEvent = [s \in Streams |-> <<>>]
    /\ tmux = <<>>
    /\ replies = <<>>
    /\ disk = {}
    /\ listings = <<>>

\* The program running in the session redraws the pane.
PaneChange ==
    /\ \E t \in PaneTexts \ {pane} : pane' = t
    /\ UNCHANGED <<pc, prev, current, cycle, lastEvent, injectVars, catalogVars>>

\* GET /stream: a new event_generator, prev = None.  Streams are numbered in
\* the order they are opened.
Connect(s) ==
    /\ pc[s] = "idle"
    /\ \A r \in Streams : r < s => pc[r] # "idle"
    /\ pc' = [pc EXCEPT ![s] = "capture"]
    /\ prev' = [prev EXCEPT ![s] = <<>>]
    /\ UNCHANGED <<pane, current, cycle, lastEvent, injectVars, catalogVars>>

\* One pass of the loop body up to its next suspension point: the capture,
\* the comparison and, on a change, the yield; an exception goes to
\* `except Exception: pass` and on to the sleep.
Capture(s) ==
    /\ pc[s] = "capture"
    /\ \E out \in Outcomes :
         LET stdout == CaptureStdout(out, pane)
             frames == IF ~Raises(out) /\ Changed(stdout, prev[s])
                       THEN <<SseFrame(stdout)>> ELSE <<>>
         IN /\ cycle' = [cycle EXCEPT ![s] =
                   <<CycleRecord(out, stdout, prev[s], LatestCapture(s), frames)>>]
            /\ current' = IF Raises(out) THEN current
                          ELSE [current EXCEPT ![s] = stdout]
            /\ lastEvent' = IF frames = <<>> THEN lastEvent
                            ELSE [lastEvent EXCEPT ![s] = <<Last(frames)>>]
            /\ pc' = [pc EXCEPT ![s] = IF frames = <<>> THEN "sleep" ELSE "yield"]
    /\ UNCHANGED <<pane, prev, injectVars, catalogVars>>

\* One baseline for all the generators.
ResumeShared(s) ==
    /\ pc[s] = "yield"
    /\ prev' = [r \in Streams |-> <<current[s]>>]
    /\ pc' = [pc EXCEPT ![s] = "sleep"]
    /\ UNCHANGED <<pane, current, cycle, lastEvent, injectVars, catalogVars>>

\* A generator that never assigns prev.
ResumeKeepsPrev(s) ==
    /\ pc[s] = "yield"
    /\ pc' = [pc EXCEPT ![s] = "sleep"]
    /\ UNCHANGED <<pane, prev, current, cycle, lastEvent, injectVars, catalogVars>>

\* The transport asks for the next event: the generator resumes after the
\* yield, sets prev = current and reaches the sleep.
Resume(s) ==
    /\ pc[s] = "yield"
    /\ prev' = [prev EXCEPT ![s] = <<current[s]>>]
    /\ pc' = [pc EXCEPT ![s] = "sleep"]
    /\ UNCHANGED <<pane, current, cycle, lastEvent, injectVars, catalogVars>>

\* A loop that a raised capture ends: it never leaves the sleep after one.
WakeAfterSuccess(s) ==
    /\ pc[s] = "sleep"
    /\ cycle[s][1].out # "raise"
    /\ pc' = [pc EXCEPT ![s] = "capture"]
    /\ UNCHANGED <<pane, prev, current, cycle, lastEvent, injectVars, catalogVars>>

\* asyncio.sleep(0.4) is over.
Wake(s) ==
    /\ pc[s] = "sleep"
    /\ pc' = [pc EXCEPT ![s] = "capture"]
    /\ UNCHANGED <<pane, prev, current, cycle, lastEvent, injectVars, catalogVars>>

\* A disconnection that closes every generator.
DisconnectAll(s) ==
    /\ pc[s] \in {"capture", "yield", "sleep"}
    /\ pc' = [r \in Streams |-> "closed"]
    /\ prev' = [r \in Streams |-> <<>>]
    /\ current' = [r \in Streams |-> <<>>]
    /\ cycle' = [r \in Streams |-> <<>>]
    /\ lastEvent' = [r \in Streams |-> <<>>]
    /\ UNCHANGED <<pane, injectVars, catalogVars>>

\* The subscriber goes away: the generator is closed where it is suspended,
\* and its locals go with it.
Disconnect(s) ==
    /\ pc[s] \in {"capture", "yield", "sleep"}
    /\ pc' = [pc EXCEPT ![s] = "closed"]
    /\ prev' = [prev EXCEPT ![s] = <<>>]
    /\ current' = [current EXCEPT ![s] = <<>>]
    /\ cycle' = [cycle EXCEPT ![s] = <<>>]
    /\ lastEvent' = [lastEvent EXCEPT ![s] = <<>>]
    /\ UNCHANGED <<pane, injectVars, catalogVars>>

MirrorNext ==
    \/ PaneChange
    \/ \E s \in Streams : Connect(s)
    \/ \E s \in Streams : Capture(s)
    \/ \E s \in Streams : Resume(s)
    \/ \E s \in Streams : Wake(s)
    \/ \E s \in Streams : Disconnect(s)

SpecMirror == Init /\ [][MirrorNext]_vars

\* The event loop runs a generator that is ready: one whose sleep is over, or
\* whose consumer, the StreamingResponse of a connected subscriber, asks for
\* the next event.  Nothing makes a subscriber disconnect or the pane change.
MirrorFairness ==
    \A s \in Streams :
        /\ WF_vars(Capture(s))
        /\ WF_vars(Resume(s))
        /\ WF_vars(Wake(s))

SpecMirrorLive == SpecMirror /\ MirrorFairness

\* -------------------------------------------------------- Input Injector
\* Request bodies: payload.text of POST /send and payload.key of POST /key.
\* "Enter" is also a text, and "NoSuchKey" is a name tmux does not know.
InjectTexts == {"hello", "Enter"}
KeyNames == {"Enter", "C-c", "NoSuchKey"}

\* The argument lists after the tmux binary, in the order send_text and
\* send_key run them.
SendKeysArgv(rest) == <<"send-keys", "-t", "claude">> \o rest

SendTextArgvEnterFirst(text) ==
    << SendKeysArgv(<<"Enter">>), SendKeysArgv(<<"-l", text>>) >>

\* The literal text alone.
SendTextArgvTextOnly(text) == << SendKeysArgv(<<"-l", text>>) >>

SendTextArgv(text) ==
    << SendKeysArgv(<<"-l", text>>), SendKeysArgv(<<"Enter">>) >>

\* Only the names of the page's quick keys are forwarded.
SendKeyArgvKnownOnly(key) ==
    IF key \in {"Enter", "C-c"} THEN << SendKeysArgv(<<key>>) >> ELSE <<>>

SendKeyArgv(key) == << SendKeysArgv(<<key>>) >>

\* An invocation that raised is made a second time.
ExecutedRetrying(argvs, outs, by) ==
    LET run(i) == [argv |-> argvs[i], out |-> outs[i], by |-> by]
    IN IF Raises(outs[1]) THEN <<run(1), run(1)>>
       ELSE IF Len(argvs) = 1 THEN <<run(1)>>
       ELSE IF Raises(outs[2]) THEN <<run(1), run(2), run(2)>>
       ELSE <<run(1), run(2)>>

\* Every invocation is made, whatever the one before it did.
ExecutedThrough(argvs, outs, by) ==
    [i \in DOMAIN argvs |-> [argv |-> argvs[i], out |-> outs[i], by |-> by]]

\* The invocations a handler makes of the argument lists it runs in order,
\* outs[i] being how the i-th would end: it stops at the first that raises.
RECURSIVE Executed(_, _, _)
Executed(argvs, outs, by) ==
    IF argvs = <<>> THEN <<>>
    ELSE <<[argv |-> Head(argvs), out |-> Head(outs), by |-> by]>>
         \o (IF Raises(Head(outs)) THEN <<>>
             ELSE Executed(Tail(argvs), Tail(outs), by))

\* How the call ends: the handler returns {"status": "sent"}, or the
\* exception of subprocess.run leaves it and the request fails.
ReplyAlwaysSent(made) == "sent"

ReplyStatus(made) ==
    IF \E i \in DOMAIN made : Raises(made[i].out) THEN "raised" ELSE "sent"

\* What a call leaves in replies.  first, n: where its invocations are in
\* tmux.
Reply(op, arg, made) ==
    [op |-> op, arg |-> arg, status |-> ReplyStatus(made),
     first |-> Len(tmux) + 1, n |-> Len(made)]

\* POST /send: the whole handler; it has no await, so nothing else runs on
\* the event loop between its two subprocess.run calls.
SendText(text) ==
    /\ Len(tmux) + 2 <= MaxLog
    /\ \E outs \in [1..2 -> Outcomes] :
         LET made == Executed(SendTextArgv(text), outs, Len(replies) + 1)
         IN /\ tmux' = tmux \o made
            /\ replies' = Append(replies, Reply("send_text", text, made))
    /\ UNCHANGED <<pane, pc, prev, current, cycle, lastEvent, catalogVars>>

\* POST /key.
SendKey(key) ==
    /\ Len(tmux) + 1 <= MaxLog
    /\ \E outs \in [1..1 -> Outcomes] :
         LET made == Executed(SendKeyArgv(key), outs, Len(replies) + 1)
         IN /\ tmux' = tmux \o made
            /\ replies' = Append(replies, Reply("send_key", key, made))
    /\ UNCHANGED <<pane, pc, prev, current, cycle, lastEvent, catalogVars>>

InjectNext ==
    \/ \E text \in InjectTexts : SendText(text)
    \/ \E key \in KeyNames : SendKey(key)

SpecInject == Init /\ [][InjectNext]_vars

\* ------------------------------------------------ Command Catalog Builder
Entry(command, description, takes_args) ==
    [command |-> command, description |-> description, takes_args |-> takes_args]

\* BUILTIN_COMMANDS, lines 21-45.
BUILTIN_COMMANDS == <<
    Entry(<<"/", "b", "u", "g">>,
          <<"R", "e", "p", "o", "r", "t", " ", "a", " ", "C", "l", "a", "u",
          "d", "e", " ", "C", "o", "d", "e", " ", "b", "u", "g">>,
          FALSE),
    Entry(<<"/", "c", "l", "e", "a", "r">>,
          <<"C", "l", "e", "a", "r", " ", "c", "o", "n", "v", "e", "r", "s",
          "a", "t", "i", "o", "n", " ", "h", "i", "s", "t", "o", "r", "y">>,
          FALSE),
    Entry(<<"/", "c", "o", "m", "p", "a", "c", "t">>,
          <<"C", "o", "m", "p", "a", "c", "t", " ", "c", "o", "n", "v", "e",
          "r", "s", "a", "t", "i", "o", "n", " ", "w", "i", "t", "h", " ",
          "s", "u", "m", "m", "a", "r", "y">>,
          TRUE),
    Entry(<<"/", "c", "o", "n", "f", "i", "g">>,
          <<"M", "a", "n", "a", "g", "e", " ", "c", "o", "n", "f", "i", "g",
          "u", "r", "a", "t", "i", "o", "n">>,
          TRUE),
    Entry(<<"/", "c", "o", "s", "t">>,
          <<"S", "h", "o", "w", " ", "t", "o", "k", "e", "n", " ", "u", "s",
          "a", "g", "e", " ", "a", "n", "d", " ", "c", "o", "s", "t">>,
          FALSE),
    Entry(<<"/", "d", "o", "c", "t", "o", "r">>,
          <<"C", "h", "e", "c", "k", " ", "C", "l", "a", "u", "d", "e", " ",
          "C", "o", "d", "e", " ", "i", "n", "s", "t", "a", "l", "l", "a",
          "t", "i", "o", "n">>,
          FALSE),
    Entry(<<"/", "e", "x", "i", "t">>,
          <<"E", "x", "i", "t", " ", "C", "l", "a", "u", "d", "e", " ", "C",
          "o", "d", "e">>,
          FALSE),
    Entry(<<"/", "h", "e", "l", "p">>,
          <<"S", "h", "o", "w", " ", "h", "e", "l", "p">>,
          TRUE),
    Entry(<<"/", "i", "d", "e">>,
          <<"C", "o", "n", "n", "e", "c", "t", " ", "t", "o", " ", "I", "D",
          "E">>,
          FALSE),
    Entry(<<"/", "i", "n", "i", "t">>,
          <<"I", "n", "i", "t", "i", "a", "l", "i", "z", "e", " ", "p", "r",
          "o", "j", "e", "c", "t", " ", "w", "i", "t", "h", " ", "C", "L",
          "A", "U", "D", "E", ".", "m", "d">>,
          FALSE),
    Entry(<<"/", "l", "o", "g", "i", "n">>,
          <<"S", "i", "g", "n", " ", "i", "n", " ", "t", "o", " ", "C", "l",
          "a", "u", "d", "e">>,
          FALSE),
    Entry(<<"/", "l", "o", "g", "o", "u", "t">>,
          <<"S", "i", "g", "n", " ", "o", "u", "t", " ", "f", "r", "o", "m",
          " ", "C", "l", "a", "u", "d", "e">>,
          FALSE),
    Entry(<<"/", "m", "c", "p">>,
          <<"M", "a", "n", "a", "g", "e", " ", "M", "C", "P", " ", "s", "e",
          "r", "v", "e", "r", "s">>,
          TRUE),
    Entry(<<"/", "m", "e", "m", "o", "r", "y">>,
          <<"E", "d", "i", "t", " ", "m", "e", "m", "o", "r", "y", " ", "(",
          "C", "L", "A", "U", "D", "E", ".", "m", "d", ")">>,
          FALSE),
    Entry(<<"/", "m", "i", "g", "r", "a", "t", "e", "-", "i", "n", "s", "t", "a", "l", "l", "e", "r">>,
          <<"M", "i", "g", "r", "a", "t", "e", " ", "t", "o", " ", "l", "a",
          "t", "e", "s", "t", " ", "i", "n", "s", "t", "a", "l", "l", "e",
          "r">>,
          FALSE),
    Entry(<<"/", "m", "o", "d", "e", "l">>,
          <<"S", "e", "t", " ", "o", "r", " ", "s", "h", "o", "w", " ", "c",
          "u", "r", "r", "e", "n", "t", " ", "A", "I", " ", "m", "o", "d",
          "e", "l">>,
          TRUE),
    Entry(<<"/", "p", "r", "-", "c", "o", "m", "m", "e", "n", "t", "s">>,
          <<"V", "i", "e", "w", " ", "p", "u", "l", "l", " ", "r", "e", "q",
          "u", "e", "s", "t", " ", "c", "o", "m", "m", "e", "n", "t", "s">>,
          FALSE),
    Entry(<<"/", "r", "e", "s", "e", "t">>,
          <<"R", "e", "s", "e", "t", " ", "t", "o", " ", "e", "m", "p", "t",
          "y", " ", "p", "r", "o", "j", "e", "c", "t", " ", "c", "o", "n",
          "t", "e", "x", "t">>,
          FALSE),
    Entry(<<"/", "r", "e", "s", "u", "m", "e">>,
          <<"R", "e", "s", "u", "m", "e", " ", "a", " ", "p", "r", "e", "v",
          "i", "o", "u", "s", " ", "c", "o", "n", "v", "e", "r", "s", "a",
          "t", "i", "o", "n">>,
          TRUE),
    Entry(<<"/", "r", "e", "v", "i", "e", "w">>,
          <<"R", "e", "q", "u", "e", "s", "t", " ", "c", "o", "d", "e", " ",
          "r", "e", "v", "i", "e", "w">>,
          FALSE),
    Entry(<<"/", "s", "t", "a", "t", "u", "s">>,
          <<"S", "h", "o", "w", " ", "a", "c", "c", "o", "u", "n", "t", " ",
          "a", "n", "d", " ", "s", "y", "s", "t", "e", "m", " ", "s", "t",
          "a", "t", "u", "s">>,
          FALSE),
    Entry(<<"/", "t", "e", "r", "m", "i", "n", "a", "l">>,
          <<"R", "u", "n", " ", "a", " ", "t", "e", "r", "m", "i", "n", "a",
          "l", " ", "c", "o", "m", "m", "a", "n", "d">>,
          TRUE),
    Entry(<<"/", "v", "i", "m">>,
          <<"E", "n", "t", "e", "r", " ", "v", "i", "m", " ", "m", "o", "d",
          "e">>,
          FALSE) >>

\* The characters of the model's strings in code point order; str comparison
\* in sorted() is lexicographic by code point.
CodePointOrder ==
    <<"\n", " ", "\"", "-", ".", "/", "1", "2", ":", "A", "B", "D", "E", "G",
      "I", "K", "L", "M", "S", "V", "a", "b", "c", "d", "e", "h", "i", "l",
      "m", "n", "o", "p", "q", "r", "s", "t", "u", "v", "x", "z">>

Ord(c) == CHOOSE i \in DOMAIN CodePointOrder : CodePointOrder[i] = c

\* a < b for two str.
RECURSIVE StrLess(_, _)
StrLess(a, b) ==
    IF b = <<>> THEN FALSE
    ELSE IF a = <<>> THEN TRUE
    ELSE IF Head(a) = Head(b) THEN StrLess(Tail(a), Tail(b))
    ELSE Ord(Head(a)) < Ord(Head(b))

\* str.strip() and str.strip('"'): the characters of drop are removed from
\* both ends.
WhiteSpace == {" ", "\n", "\t"}
IsSpace(c) == c \in WhiteSpace

RECURSIVE StripLeft(_, _)
StripLeft(s, drop) ==
    IF s # <<>> /\ Head(s) \in drop THEN StripLeft(Tail(s), drop) ELSE s

RECURSIVE StripRight(_, _)
StripRight(s, drop) ==
    IF s # <<>> /\ Last(s) \in drop THEN StripRight(Front(s), drop) ELSE s

Strip(s) == StripRight(StripLeft(s, WhiteSpace), WhiteSpace)

StripQuotes(s) == StripRight(StripLeft(s, {"\""}), {"\""})

StartsAt(s, p, word) ==
    /\ p + Len(word) - 1 <= Len(s)
    /\ SubSeq(s, p, p + Len(word) - 1) = word

\* re.match(r"^---\n(.*?)\n---", content, re.DOTALL): <<group 1>>, or <<>>
\* when there is no match.  The lazy group ends at the first "\n---" at or
\* after the fifth character.
FrontMatter(content) ==
    LET open == <<"-", "-", "-", "\n">>
        close == <<"\n", "-", "-", "-">>
        ends == {j \in 5..Len(content) : StartsAt(content, j, close)}
    IN IF StartsAt(content, 1, open) /\ ends # {}
       THEN LET j == CHOOSE e \in ends : \A o \in ends : e <= o
            IN << SubSeq(content, 5, j - 1) >>
       ELSE <<>>

\* The end of the line p is on: the index of the next "\n", or Len(s) + 1.
LineEnd(s, p) ==
    LET nl == {i \in p..Len(s) : s[i] = "\n"}
    IN IF nl = {} THEN Len(s) + 1 ELSE CHOOSE i \in nl : \A o \in nl : i <= o

\* Where group 1 of r"^<key>\s*(.+)$" starts when the key is matched at p: \s*
\* takes the longest run of white space, new lines included, that leaves a
\* character other than "\n" for (.+); 0 when there is none.
GroupStart(fm, p, key) ==
    LET q == p + Len(key)
        solid == {i \in q..Len(fm) : ~IsSpace(fm[i])}
        w == IF solid = {} THEN Len(fm) + 1
             ELSE CHOOSE i \in solid : \A o \in solid : i <= o
        starts == {k \in q..w : k <= Len(fm) /\ fm[k] # "\n"}
    IN IF starts = {} THEN 0 ELSE CHOOSE k \in starts : \A o \in starts : k >= o

\* re.search(r"^<key>\s*(.+)$", fm, re.MULTILINE): <<group 1>> of the leftmost
\* match, or <<>>.
FieldSearch(fm, key) ==
    LET at == {p \in 1..Len(fm) :
                  /\ p = 1 \/ fm[p - 1] = "\n"
                  /\ StartsAt(fm, p, key)
                  /\ GroupStart(fm, p, key) # 0}
    IN IF at = {} THEN <<>>
       ELSE LET p == CHOOSE a \in at : \A o \in at : a <= o
                k == GroupStart(fm, p, key)
            IN << SubSeq(fm, k, LineEnd(fm, k) - 1) >>

KEY_NAME == <<"n", "a", "m", "e", ":">>
KEY_DESCRIPTION == <<"d", "e", "s", "c", "r", "i", "p", "t", "i", "o", "n", ":">>

\* The parse result (None, ""); name is <<>> for None and <<str>> otherwise.
NoSkill == [name |-> <<>>, desc |-> <<>>]

\* _parse_skill_md(path) for the file at path.  A file that cannot be opened
\* or decoded raises inside the try, which returns (None, "").
ParseSkillMd(file) ==
    IF ~file.readable THEN NoSkill
    ELSE LET m == FrontMatter(file.content)
         IN IF m = <<>> THEN NoSkill
            ELSE LET name_m == FieldSearch(m[1], KEY_NAME)
                     desc_m == FieldSearch(m[1], KEY_DESCRIPTION)
                 IN [name |-> IF name_m = <<>> THEN <<>>
                              ELSE << StripQuotes(Strip(name_m[1])) >>,
                     desc |-> IF desc_m = <<>> THEN <<>>
                              ELSE StripQuotes(Strip(desc_m[1]))]

\* `if name` / `if not name`: neither None nor "".
Truthy(name) == name # <<>> /\ name[1] # <<>>

\* os.path.expanduser("~").split(os.sep) for the home directory /h, and the
\* path segments the two glob patterns name.
HOME == << <<>>, <<"h">> >>
DOT_CLAUDE == <<".", "c", "l", "a", "u", "d", "e">>
SKILLS == <<"s", "k", "i", "l", "l", "s">>
PLUGINS == <<"p", "l", "u", "g", "i", "n", "s">>
CACHE == <<"c", "a", "c", "h", "e">>
SKILL_MD == <<"S", "K", "I", "L", "L", ".", "m", "d">>
SkillsDir == HOME \o <<DOT_CLAUDE, SKILLS>>
CacheDir == HOME \o <<DOT_CLAUDE, PLUGINS, CACHE>>

\* A file: its path split at "/", whether open() and read() succeed, and its
\* text.
File(path, readable, content) ==
    [path |-> path, readable |-> readable, content |-> content]

\* The text made of the given lines, each ended by "\n".
Text(lines) == Flatten([i \in 1..Len(lines) |-> lines[i] \o <<"\n">>])

DELIMITER == <<"-", "-", "-">>
NameLine(value) == KEY_NAME \o value
DescriptionLine(value) == KEY_DESCRIPTION \o value

UserSkill(dir, readable, lines) ==
    File(SkillsDir \o <<dir, SKILL_MD>>, readable, Text(lines))
PluginSkill(dirs, lines) ==
    File(CacheDir \o dirs \o <<SKILL_MD>>, TRUE, Text(lines))

\* The descriptor files the model installs and removes.
FilePool ==
    << \* skills/a: name: q, description: A
       UserSkill(<<"a">>, TRUE,
           <<DELIMITER, NameLine(<<" ", "q">>), DescriptionLine(<<" ", "A">>),
             DELIMITER>>),
       \* skills/b: name: "q" (quoted), description: B
       UserSkill(<<"b">>, TRUE,
           <<DELIMITER, NameLine(<<" ", "\"", "q", "\"">>),
             DescriptionLine(<<" ", "B">>), DELIMITER>>),
       \* skills/c: name: vim, no description
       UserSkill(<<"c">>, TRUE, <<DELIMITER, NameLine(<<" ", "v", "i", "m">>), DELIMITER>>),
       \* skills/d: no front matter
       UserSkill(<<"d">>, TRUE, <<NameLine(<<" ", "x">>)>>),
       \* skills/e: a front matter without a name line
       UserSkill(<<"e">>, TRUE, <<DELIMITER, DescriptionLine(<<" ", "E">>), DELIMITER>>),
       \* skills/f: cannot be read
       UserSkill(<<"f">>, FALSE, <<>>),
       \* skills/g: a name line without a value, description: G
       UserSkill(<<"g">>, TRUE,
           <<DELIMITER, NameLine(<<>>), DescriptionLine(<<" ", "G">>), DELIMITER>>),
       \* skills/h/i: one directory too deep for skills/*/SKILL.md
       File(SkillsDir \o << <<"h">>, <<"i">>, SKILL_MD >>, TRUE,
            Text(<<DELIMITER, NameLine(<<" ", "z">>), DELIMITER>>)),
       \* cache/m/t/1: name: b, description: V1
       PluginSkill(<< <<"m">>, <<"t">>, <<"1">> >>,
           <<DELIMITER, NameLine(<<" ", "b">>), DescriptionLine(<<" ", "V", "1">>),
             DELIMITER>>),
       \* cache/m/t/2: name: b, description: V2
       PluginSkill(<< <<"m">>, <<"t">>, <<"2">> >>,
           <<DELIMITER, NameLine(<<" ", "b">>), DescriptionLine(<<" ", "V", "2">>),
             DELIMITER>>),
       \* cache/m/q/1: name: q, the plugin's own name
       PluginSkill(<< <<"m">>, <<"q">>, <<"1">> >>,
           <<DELIMITER, NameLine(<<" ", "q">>), DELIMITER>>),
       \* cache/SKILL.md: no segment two after "cache"
       PluginSkill(<<>>, <<DELIMITER, NameLine(<<" ", "x">>), DELIMITER>>),
       \* cache/m/SKILL.md: the segment two after "cache" is the file name
       PluginSkill(<< <<"m">> >>, <<DELIMITER, NameLine(<<" ", "x">>), DELIMITER>>) >>

FileIds == DOMAIN FilePool

IsPrefix(a, b) == Len(a) <= Len(b) /\ SubSeq(b, 1, Len(a)) = a
Hidden(segment) == segment # <<>> /\ Head(segment) = "."

\* glob.glob(f"{HOME}/.claude/skills/*/SKILL.md"): the files on disk it
\* matches.
UserGlob(present) ==
    {i \in present :
        LET p == FilePool[i].path
        IN /\ Len(p) = Len(SkillsDir) + 2
           /\ IsPrefix(SkillsDir, p)
           /\ ~Hidden(p[Len(p) - 1])
           /\ Last(p) = SKILL_MD}

\* glob.glob(f"{HOME}/.claude/plugins/cache/**/SKILL.md", recursive=True).
PluginGlob(present) ==
    {i \in present :
        LET p == FilePool[i].path
        IN /\ Len(p) >= Len(CacheDir) + 1
           /\ IsPrefix(CacheDir, p)
           /\ \A k \in (Len(CacheDir) + 1)..(Len(p) - 1) : ~Hidden(p[k])
           /\ Last(p) = SKILL_MD}

CommonPrefixLen(a, b) ==
    LET same == {n \in 0..Len(a) : n <= Len(b) /\ SubSeq(a, 1, n) = SubSeq(b, 1, n)}
    IN CHOOSE n \in same : \A o \in same : n >= o

\* The orders glob may return the matched files in: the directories are
\* walked parents first, the entries of a directory in the arbitrary order of
\* os.scandir.
GlobOrders(matched) ==
    {o \in [1..Cardinality(matched) -> matched] :
        /\ \A i, j \in DOMAIN o : i # j => o[i] # o[j]
        /\ \A i, j \in DOMAIN o :
               i < j => LET di == Front(FilePool[o[i]].path)
                            dj == Front(FilePool[o[j]].path)
                        IN ~(IsPrefix(dj, di) /\ dj # di)
        /\ \A i, j, k \in DOMAIN o :
               (i < j /\ j < k) =>
                   LET di == Front(FilePool[o[i]].path)
                       dj == Front(FilePool[o[j]].path)
                       dk == Front(FilePool[o[k]].path)
                   IN CommonPrefixLen(di, dk) <= CommonPrefixLen(di, dj)}

\* What an entry was deduplicated by: the name (user skills; the bare command
\* of a built-in), or the pair (plugin_name, name).
NameKey(name) == [kind |-> "name", plugin |-> <<>>, name |-> name]
PairKey(plugin, name) == [kind |-> "pair", plugin |-> plugin, name |-> name]

\* parts[parts.index("cache") + 2]: <<the segment>>, or <<>> when index or the
\* subscript raises.
PluginName(parts) ==
    LET at == {i \in DOMAIN parts : parts[i] = CACHE}
    IN IF at = {} THEN <<>>
       ELSE LET cache_idx == CHOOSE i \in at : \A o \in at : i <= o
            IN IF cache_idx + 2 > Len(parts) THEN <<>> ELSE << parts[cache_idx + 2] >>

UserCommand(name) == <<"/">> \o name

PluginCommandQualified(plugin_name, name) == <<"/">> \o plugin_name \o <<":">> \o name

PluginCommand(plugin_name, name) ==
    IF plugin_name # name THEN <<"/">> \o plugin_name \o <<":">> \o name
    ELSE <<"/">> \o name

\* The loops of _collect_skill_commands.  acc.commands: the list so far, each
\* entry with its key; acc.names, acc.pairs: the str and the tuple members of
\* `seen` (a str never equals a tuple).
NoCommands == [commands |-> <<>>, names |-> {}, pairs |-> {}]

UserStep(acc, file) ==
    LET skill == ParseSkillMd(file)
    IN IF Truthy(skill.name) /\ skill.name[1] \notin acc.names
       THEN [acc EXCEPT
                !.names = @ \cup {skill.name[1]},
                !.commands = Append(@,
                    [entry |-> Entry(UserCommand(skill.name[1]), skill.desc, TRUE),
                     key |-> NameKey(skill.name[1])])]
       ELSE acc

PluginStep(acc, file) ==
    LET plugin == PluginName(file.path)
        skill == ParseSkillMd(file)
    IN IF plugin = <<>> THEN acc
       ELSE IF ~Truthy(skill.name) THEN acc
       ELSE IF <<plugin[1], skill.name[1]>> \in acc.pairs THEN acc
       ELSE [acc EXCEPT
                !.pairs = @ \cup {<<plugin[1], skill.name[1]>>},
                !.commands = Append(@,
                    [entry |-> Entry(PluginCommand(plugin[1], skill.name[1]),
                                     skill.desc, TRUE),
                     key |-> PairKey(plugin[1], skill.name[1])])]

RECURSIVE UserLoop(_, _)
UserLoop(acc, order) ==
    IF order = <<>> THEN acc
    ELSE UserLoop(UserStep(acc, FilePool[Head(order)]), Tail(order))

RECURSIVE PluginLoop(_, _)
PluginLoop(acc, order) ==
    IF order = <<>> THEN acc
    ELSE PluginLoop(PluginStep(acc, FilePool[Head(order)]), Tail(order))

\* sorted(commands, key=lambda c: c["command"]): a stable sort, so an item goes
\* after the items whose command is not greater than its own.
InsertByCommand(sorted, item) ==
    LET greater == {i \in DOMAIN sorted :
                       StrLess(item.entry.command, sorted[i].entry.command)}
        at == IF greater = {} THEN Len(sorted) + 1
              ELSE CHOOSE i \in greater : \A o \in greater : i <= o
    IN SubSeq(sorted, 1, at - 1) \o <<item>> \o SubSeq(sorted, at, Len(sorted))

RECURSIVE SortedByCommand(_)
SortedByCommand(items) ==
    IF items = <<>> THEN <<>>
    ELSE InsertByCommand(SortedByCommand(Front(items)), Last(items))

\* _collect_skill_commands() when the two globs return userOrder and
\* pluginOrder: the sorted commands, each with its key.
CollectSkillCommands(userOrder, pluginOrder) ==
    SortedByCommand(PluginLoop(UserLoop(NoCommands, userOrder), pluginOrder).commands)

\* The collected commands first, the built-ins after them.
ListingSkillsFirst(userOrder, pluginOrder) ==
    LET found == CollectSkillCommands(userOrder, pluginOrder)
    IN [catalog |-> [i \in DOMAIN found |-> found[i].entry] \o BUILTIN_COMMANDS,
        keys |-> [i \in DOMAIN found |-> found[i].key]
                 \o [i \in DOMAIN BUILTIN_COMMANDS |->
                        NameKey(Tail(BUILTIN_COMMANDS[i].command))]]

\* The response of GET /commands, list(BUILTIN_COMMANDS) + the collected
\* commands, and beside it the key of every entry.
Listing(userOrder, pluginOrder) ==
    LET found == CollectSkillCommands(userOrder, pluginOrder)
    IN [catalog |-> BUILTIN_COMMANDS \o [i \in DOMAIN found |-> found[i].entry],
        keys |-> [i \in DOMAIN BUILTIN_COMMANDS |->
                     NameKey(Tail(BUILTIN_COMMANDS[i].command))]
                 \o [i \in DOMAIN found |-> found[i].key]]

\* A descriptor file is installed, or removed.
WriteFile(f) ==
    /\ f \notin disk
    /\ Cardinality(disk) < MaxFiles
    /\ disk' = disk \cup {f}
    /\ listings' = <<>>
    /\ UNCHANGED <<pane, pc, prev, current, cycle, lastEvent, injectVars>>

RemoveFile(f) ==
    /\ f \in disk
    /\ disk' = disk \ {f}
    /\ listings' = <<>>
    /\ UNCHANGED <<pane, pc, prev, current, cycle, lastEvent, injectVars>>

\* GET /commands: the handler reads the disk afresh; the two globs list the
\* files they match in one of the orders the file system may give.
GetCommands ==
    /\ Len(listings) < MaxRequests
    /\ \E userOrder \in GlobOrders(UserGlob(disk)) :
         \E pluginOrder \in GlobOrders(PluginGlob(disk)) :
            listings' = Append(listings, Listing(userOrder, pluginOrder))
    /\ UNCHANGED <<pane, pc, prev, current, cycle, lastEvent, injectVars, disk>>

CatalogNext ==
    \/ \E f \in FileIds : WriteFile(f)
    \/ \E f \in FileIds : RemoveFile(f)
    \/ GetCommands

SpecCatalog == Init /\ [][CatalogNext]_vars

\* ------------------------------------------------------------ the server
\* uvicorn.run(app) serves every request on one event loop.  The handlers and
\* the generator are `async def` and call the blocking subprocess.run, so each
\* runs from one of its suspension points (an await, a yield) to the next with
\* nothing else running: a step of the server is one step of one of them.
\* The injections made while the streams poll.
ServerTexts == {"hello"}
ServerKeys == {"C-c"}

ServerNext ==
    \/ PaneChange
    \/ \E s \in Streams : Connect(s)
    \/ \E s \in Streams : Capture(s)
    \/ \E s \in Streams : Resume(s)
    \/ \E s \in Streams : Wake(s)
    \/ \E s \in Streams : Disconnect(s)
    \/ \E text \in ServerTexts : SendText(text)
    \/ \E key \in ServerKeys : SendKey(key)

SpecServer == Init /\ [][ServerNext]_vars

\* ------------------------------------------------------------ properties
\* The latest cycle of every stream that has one satisfies P.
LatestCycles(P(_, _)) ==
    \A s \in Streams : cycle[s] # <<>> => P(s, cycle[s][1])

\* C1 (mirror quiescence): a cycle whose capture returned the same text as
\* the stream's previous returned capture yields no event.
QuiescentCycle(s, c) ==
    (c.out # "raise" /\ c.before = <<c.stdout>>) => c.emitted = <<>>

C1_MirrorQuiescence == LatestCycles(QuiescentCycle)

C1_Witness ==
    \E s \in Streams :
        /\ cycle[s] # <<>>
        /\ cycle[s][1].out = "ok"
        /\ cycle[s][1].stdout # <<>>
        /\ cycle[s][1].before = <<cycle[s][1].stdout>>
        /\ cycle[s][1].emitted = <<>>

\* C2 (mirror liveness): a cycle whose capture returned a text other than
\* the stream's previous returned capture yields exactly one event, which the
\* client decodes to that whole text, and once the generator has resumed, that
\* text is prev, the baseline of the next comparison.
ChangedCycle(s, c) ==
    (c.out # "raise" /\ c.before # <<>> /\ c.before # <<c.stdout>>) =>
        /\ Len(c.emitted) = 1
        /\ ClientText(c.emitted[1]) = <<c.stdout>>
        /\ lastEvent[s] = <<c.emitted[1]>>
        /\ pc[s] = "yield"
           \/ (pc[s] \in {"sleep", "capture"} /\ prev[s] = <<c.stdout>>)

C2_MirrorLiveness == LatestCycles(ChangedCycle)

C2_Witness ==
    \E s \in Streams :
        /\ cycle[s] # <<>>
        /\ cycle[s][1].out = "ok"
        /\ cycle[s][1].before = << <<"A", "\n", "B">> >>
        /\ cycle[s][1].stdout = <<"A", "\n", "\"", "\\">>
        /\ Len(cycle[s][1].emitted) = 1
        /\ pc[s] = "capture"
        /\ prev[s] = <<cycle[s][1].stdout>>

\* C3 (capture failures are swallowed): a cycle whose subprocess.run raised
\* yields no event and leaves prev as it was when the cycle began; the loop
\* goes on to its sleep.
FailedCycle(s, c) ==
    c.out = "raise" =>
        /\ c.emitted = <<>>
        /\ prev[s] = c.base
        /\ pc[s] \in {"sleep", "capture"}

C3_CaptureFailureSwallowed == LatestCycles(FailedCycle)

C3_Witness ==
    \E s \in Streams :
        /\ cycle[s] # <<>>
        /\ cycle[s][1].out = "raise"
        /\ cycle[s][1].base # <<>>
        /\ cycle[s][1].base # <<pane>>
        /\ prev[s] = cycle[s][1].base
        /\ pc[s] = "capture"

\* The invocations call number k made, in order.
InvocationsOf(k) ==
    SubSeq(tmux, replies[k].first, replies[k].first + replies[k].n - 1)

\* C4 (injection ordering): a send_text(t) call that returns "sent" has made
\* exactly two invocations on the session, next to each other: first the
\* literal t (send-keys -l t), then the Enter key.
C4_InjectionOrdering ==
    \A k \in DOMAIN replies :
        (replies[k].op = "send_text" /\ replies[k].status = "sent") =>
            /\ replies[k].n = 2
            /\ InvocationsOf(k)[1].argv =
                   <<"send-keys", "-t", "claude", "-l", replies[k].arg>>
            /\ InvocationsOf(k)[2].argv = <<"send-keys", "-t", "claude", "Enter">>
            /\ \A i \in 1..2 : InvocationsOf(k)[i].by = k

C4_Witness ==
    \E k \in DOMAIN replies :
        /\ replies[k].op = "send_text"
        /\ replies[k].arg = "hello"
        /\ replies[k].status = "sent"
        /\ k > 1
        /\ \A i \in 1..2 : InvocationsOf(k)[i].out = "ok"

\* C5 (injection failures surface): a call of send_text or send_key in which
\* a send-keys invocation raised does not return "sent"; a call returns
\* "sent" only when every invocation of the handler ran and none raised.
C5_InjectionFailureSurfaced ==
    \A k \in DOMAIN replies :
        LET made == InvocationsOf(k)
            raised == \E i \in DOMAIN made : made[i].out = "raise"
            all == IF replies[k].op = "send_text" THEN 2 ELSE 1
        IN /\ raised => replies[k].status = "raised"
           /\ replies[k].status = "sent" => (~raised /\ replies[k].n = all)
           /\ replies[k].status \in {"sent", "raised"}

C5_Witness ==
    \E j, k \in DOMAIN replies :
        /\ replies[j].op = "send_text"
        /\ replies[j].n = 2
        /\ InvocationsOf(j)[2].out = "raise"
        /\ replies[j].status = "raised"
        /\ replies[k].op = "send_key"
        /\ InvocationsOf(k)[1].out = "raise"
        /\ replies[k].status = "raised"

\* The discovered part of a response: what follows the built-ins.
Discovered(listing) ==
    SubSeq(listing.catalog, Len(BUILTIN_COMMANDS) + 1, Len(listing.catalog))

\* C6 (dedup invariant): in every response of GET /commands no two entries
\* have the same identity key, the key being the bare command name of a
\* built-in or a user skill and the pair (plugin identity, skill name) of a
\* plugin skill.
C6_DedupInvariant ==
    \A r \in DOMAIN listings :
        \A i, j \in DOMAIN listings[r].keys :
            i # j => listings[r].keys[i] # listings[r].keys[j]

\* C7 (ordering invariant): in every response the discovered entries are
\* strictly sorted by command: each command is less than the next one.
C7_StrictlySorted ==
    \A r \in DOMAIN listings :
        LET found == Discovered(listings[r])
        IN \A i \in 1..(Len(found) - 1) :
               StrLess(found[i].command, found[i + 1].command)

\* C8 (idempotence): the responses to requests made with the descriptor files
\* unchanged are the same list, whatever order the globs returned the files in.
C8_Idempotent ==
    \A q, r \in DOMAIN listings : listings[q].catalog = listings[r].catalog

\* The lines of a text: the stretches between its "\n".
RECURSIVE SplitLines(_)
SplitLines(text) ==
    IF text = <<>> THEN <<>>
    ELSE LET e == LineEnd(text, 1)
         IN << SubSeq(text, 1, e - 1) >>
            \o (IF e >= Len(text) THEN <<>>
                ELSE SplitLines(SubSeq(text, e + 1, Len(text))))

\* The name a descriptor declares, read as the format is described: a first
\* line that is the delimiter, key lines, a closing delimiter line; the name is
\* the value on the first `name:` line of the block, without surrounding
\* blanks and quotes.  <<>> when the file declares none.
DeclaredName(file) ==
    LET lines == SplitLines(file.content)
        closing == {c \in 2..Len(lines) : lines[c] = DELIMITER}
    IN IF ~file.readable \/ lines = <<>> \/ lines[1] # DELIMITER \/ closing = {}
       THEN <<>>
       ELSE LET c == CHOOSE x \in closing : \A o \in closing : x <= o
                named == {k \in 2..(c - 1) :
                             /\ IsPrefix(KEY_NAME, lines[k])
                             /\ StripQuotes(StripLeft(StripRight(
                                    SubSeq(lines[k], Len(KEY_NAME) + 1, Len(lines[k])),
                                    {" ", "\t"}), {" ", "\t"})) # <<>>}
            IN IF named = {} THEN <<>>
               ELSE LET k == CHOOSE x \in named : \A o \in named : x <= o
                    IN << StripQuotes(StripLeft(StripRight(
                              SubSeq(lines[k], Len(KEY_NAME) + 1, Len(lines[k])),
                              {" ", "\t"}), {" ", "\t"})) >>

\* The plugin identity of a path of the plugin tree: the segment two after the
\* first segment "cache"; <<>> when the path has no such segment.
PluginIdentity(path) ==
    IF \E k \in DOMAIN path :
           /\ path[k] = CACHE
           /\ \A j \in 1..(k - 1) : path[j] # CACHE
           /\ k + 2 \in DOMAIN path
    THEN << path[(CHOOSE k \in DOMAIN path :
                     path[k] = CACHE /\ \A j \in 1..(k - 1) : path[j] # CACHE) + 2] >>
    ELSE <<>>

\* The command plugin p is to emit for its skill n.
NamedCommand(p, n) ==
    IF p = n THEN <<"/">> \o n ELSE <<"/">> \o p \o <<":">> \o n

\* The commands of the well-formed sources on disk: of the user skills that
\* declare a name, and of the plugin skills that declare a name and have a
\* plugin identity.
WellFormedCommands ==
    {<<"/">> \o DeclaredName(FilePool[f])[1] :
        f \in {u \in UserGlob(disk) : DeclaredName(FilePool[u]) # <<>>}}
    \cup
    {NamedCommand(PluginIdentity(FilePool[f].path)[1], DeclaredName(FilePool[f])[1]) :
        f \in {u \in PluginGlob(disk) :
                 /\ DeclaredName(FilePool[u]) # <<>>
                 /\ PluginIdentity(FilePool[u].path) # <<>>}}

\* C9 (a malformed source discards only itself): every response holds, after
\* the built-ins, an entry for each well-formed source and no entry for a
\* source that is unreadable, has no parsable header, declares no name or has
\* no plugin identity in its path.
C9_MalformedDiscardsOnlyItself ==
    \A r \in DOMAIN listings :
        LET found == Discovered(listings[r])
        IN {found[i].command : i \in DOMAIN found} = WellFormedCommands

\* C10 (plugin command naming): in every response, the entry of the plugin
\* skill with plugin identity p and name n has the command "/" + n when p = n
\* and "/" + p + ":" + n otherwise, and every plugin descriptor on disk that
\* has a plugin identity and a name has its entry.
C10_PluginCommandNaming ==
    \A r \in DOMAIN listings :
        LET l == listings[r]
        IN /\ \A i \in DOMAIN l.keys :
                  l.keys[i].kind = "pair" =>
                      l.catalog[i].command =
                          NamedCommand(l.keys[i].plugin, l.keys[i].name)
           /\ \A f \in PluginGlob(disk) :
                  LET p == PluginIdentity(FilePool[f].path)
                      n == ParseSkillMd(FilePool[f]).name
                  IN (p # <<>> /\ Truthy(n)) =>
                         \E i \in DOMAIN l.keys :
                             /\ l.keys[i] = PairKey(p[1], n[1])
                             /\ l.catalog[i].command = NamedCommand(p[1], n[1])

C10_Witness ==
    \E r \in DOMAIN listings :
        \E i, j \in DOMAIN listings[r].keys :
            /\ listings[r].keys[i] = PairKey(<<"q">>, <<"q">>)
            /\ listings[r].catalog[i].command = <<"/", "q">>
            /\ listings[r].keys[j] = PairKey(<<"t">>, <<"b">>)
            /\ listings[r].catalog[j].command = <<"/", "t", ":", "b">>

\* The generator of stream r is left as it is by a step.
Untouched(r) ==
    /\ pc'[r] = pc[r]
    /\ prev'[r] = prev[r]
    /\ current'[r] = current[r]
    /\ cycle'[r] = cycle[r]
    /\ lastEvent'[r] = lastEvent[r]

\* Stream s runs a capture cycle in a step.
CaptureStep(s) == pc[s] = "capture" /\ pc'[s] \in {"yield", "sleep"}

\* C11 (cancellation is per subscriber): once a subscriber has disconnected,
\* its generator stays closed and makes no capture and no event; the step that
\* closes it leaves every other generator as it is; and while it is closed,
\* every other connected stream still emits on a change of content and still
\* goes from its suspension to its next capture.
C11_CancellationPerSubscriber ==
    /\ [][\A s \in Streams :
            /\ pc[s] = "closed" => Untouched(s)
            /\ (pc[s] # "closed" /\ pc'[s] = "closed") =>
                   \A r \in Streams \ {s} : Untouched(r)]_vars
    /\ [](\A s, r \in Streams :
            (s # r /\ pc[s] = "closed" /\ cycle[r] # <<>>) =>
                ChangedCycle(r, cycle[r][1]))
    /\ \A s, r \in Streams :
            (s # r /\ pc[s] = "closed" /\ pc[r] \in {"yield", "sleep"})
                ~> (pc[r] \in {"capture", "closed"})

C11_Witness ==
    \E s, r \in Streams :
        /\ pc[s] = "closed"
        /\ pc[r] = "yield"
        /\ cycle[r][1].out = "ok"
        /\ cycle[r][1].before # <<>>
        /\ cycle[r][1].before # <<cycle[r][1].stdout>>
        /\ Len(cycle[r][1].emitted) = 1

\* C12 (streams are independent): a step of one stream (a capture that
\* returns, one that raises, an emission, a resumption) leaves the baseline and
\* everything else of every other stream unchanged, and what a cycle emits is
\* determined by its own capture and its own baseline.
C12_StreamsIndependent ==
    [][\A s \in Streams :
          /\ pc'[s] # pc[s] => \A r \in Streams \ {s} : Untouched(r)
          /\ CaptureStep(s) =>
                LET c == cycle'[s][1]
                IN c.emitted = IF c.out # "raise" /\ <<c.stdout>> # prev[s]
                               THEN <<SseFrame(c.stdout)>> ELSE <<>>]_vars

C12_Witness ==
    \E s, r \in Streams :
        /\ prev[s] # <<>>
        /\ prev[r] # <<>>
        /\ prev[s] # prev[r]
        /\ cycle[s][1].out = "raise"
        /\ pc[r] = "sleep"
        /\ cycle[r][1].emitted # <<>>

\* C13 (no lifetime limit): while its subscriber stays connected, a stream
\* that is in a capture cycle comes to the suspension that ends it, and a
\* stream suspended after a cycle, whether the capture was unchanged, changed
\* or failed, comes to its next capture; it is closed only by a disconnection.
C13_NoLifetimeLimit ==
    /\ \A s \in Streams :
          /\ (pc[s] = "capture") ~> (pc[s] \in {"yield", "sleep", "closed"})
          /\ (pc[s] \in {"yield", "sleep"}) ~> (pc[s] \in {"capture", "closed"})
    /\ [][\A s \in Streams :
            (pc[s] # "closed" /\ pc'[s] = "closed") =>
                (cycle'[s] = <<>> /\ prev'[s] = <<>> /\ pc[s] # "idle")]_vars

C13_Witness ==
    \E s \in Streams :
        /\ cycle[s] # <<>>
        /\ cycle[s][1].out = "raise"
        /\ cycle[s][1].base = <<>>
        /\ cycle[s][1].before = <<>>
        /\ pc[s] = "capture"

\* The places in tmux of the invocations made by call number k.
MadeBy(k) == {i \in DOMAIN tmux : tmux[i].by = k}

\* C14 (no retry): whether its invocations return or raise, a send_key call
\* makes at most one invocation, and a send_text call at most one of the
\* literal text and at most one of Enter, and no other.
C14_NoRetry ==
    \A k \in DOMAIN replies :
        LET literal == {i \in MadeBy(k) : tmux[i].argv[4] = "-l"}
            keys == MadeBy(k) \ literal
        IN IF replies[k].op = "send_key"
           THEN Cardinality(keys) <= 1 /\ literal = {}
           ELSE /\ Cardinality(literal) <= 1
                /\ Cardinality(keys) <= 1
                /\ \A i \in keys : tmux[i].argv[4] = "Enter"

C14_Witness ==
    \E j, k \in DOMAIN replies :
        /\ replies[j].op = "send_key"
        /\ Cardinality(MadeBy(j)) = 1
        /\ \A i \in MadeBy(j) : tmux[i].out = "raise"
        /\ replies[k].op = "send_text"
        /\ Cardinality(MadeBy(k)) = 1
        /\ \A i \in MadeBy(k) : tmux[i].out = "raise"

\* C15 (both sub-operations of send_text): the first invocation of a
\* send_text(t) call is the literal t; Enter is invoked only once the literal
\* invocation has returned; when the literal raises (times out) the call fails
\* with no Enter invoked; when Enter raises the call fails and the literal
\* invocation stays made, with no further invocation of that call.
C15_BothOrFail ==
    \A k \in DOMAIN replies :
        replies[k].op = "send_text" =>
            LET made == InvocationsOf(k)
            IN /\ replies[k].n \in {1, 2}
               /\ MadeBy(k) = replies[k].first..(replies[k].first + replies[k].n - 1)
               /\ made[1].argv = <<"send-keys", "-t", "claude", "-l", replies[k].arg>>
               /\ made[1].out = "raise" <=> replies[k].n = 1
               /\ made[1].out = "raise" => replies[k].status = "raised"
               /\ replies[k].n = 2 =>
                     /\ made[2].argv = <<"send-keys", "-t", "claude", "Enter">>
                     /\ made[2].out = "raise" => replies[k].status = "raised"

C15_Witness ==
    \E j, k \in DOMAIN replies :
        /\ replies[j].op = "send_text"
        /\ replies[j].n = 1
        /\ replies[j].status = "raised"
        /\ replies[k].op = "send_text"
        /\ replies[k].n = 2
        /\ InvocationsOf(k)[1].out = "ok"
        /\ InvocationsOf(k)[2].out = "raise"
        /\ replies[k].status = "raised"

\* C16 (the key name is passed through): a send_key(k) call makes one
\* invocation, send-keys with exactly k as the key, for a name tmux knows and
\* for one it does not, and makes no other; no Enter is added.
C16_KeyPassedThrough ==
    \A k \in DOMAIN replies :
        replies[k].op = "send_key" =>
            /\ replies[k].n = 1
            /\ MadeBy(k) = {replies[k].first}
            /\ tmux[replies[k].first].argv =
                   <<"send-keys", "-t", "claude", replies[k].arg>>

C16_Witness ==
    \E j, k \in DOMAIN replies :
        /\ replies[j].op = "send_key"
        /\ replies[j].arg = "NoSuchKey"
        /\ tmux[replies[j].first].argv = <<"send-keys", "-t", "claude", "NoSuchKey">>
        /\ replies[k].op = "send_key"
        /\ replies[k].arg = "C-c"
        /\ j < k
        /\ Len(tmux) = k

\* C17 (the built-ins are a fixed prefix): every response begins with the
\* built-in list, entry for entry and in its order, whatever files are on disk;
\* what follows are the discovered entries, at most one per descriptor file on
\* disk, and as many in a later response as in an earlier one.
C17_BuiltinsFixedPrefix ==
    \A r \in DOMAIN listings :
        LET catalog == listings[r].catalog
        IN /\ Len(catalog) >= Len(BUILTIN_COMMANDS)
           /\ SubSeq(catalog, 1, Len(BUILTIN_COMMANDS)) = BUILTIN_COMMANDS
           /\ Len(catalog) - Len(BUILTIN_COMMANDS) <= Cardinality(disk)
           /\ \A i \in (Len(BUILTIN_COMMANDS) + 1)..Len(catalog) : catalog[i].takes_args
           /\ \A q \in DOMAIN listings : Len(listings[q].catalog) = Len(catalog)

C17_Witness ==
    /\ Len(listings) = 2
    /\ 3 \in disk
    /\ \A r \in DOMAIN listings :
          /\ Len(listings[r].catalog) = Len(BUILTIN_COMMANDS) + 2
          /\ listings[r].catalog[Len(BUILTIN_COMMANDS) + 2].command = <<"/", "v", "i", "m">>
          /\ listings[r].catalog[Len(BUILTIN_COMMANDS)].command = <<"/", "v", "i", "m">>

\* C18 (send_text is atomic at the session): with streams polling and other
\* send_text and send_key calls in between, in every state the server can be
\* in a literal-text invocation that returned is followed at once in the
\* session's invocations by the Enter of the same call; a step makes the
\* invocations of one call only, and a step in which a stream captures the pane
\* makes none.
C18_SendTextAtomic ==
    /\ [](\A i \in DOMAIN tmux :
            (tmux[i].argv[4] = "-l" /\ tmux[i].out # "raise") =>
                /\ i + 1 \in DOMAIN tmux
                /\ tmux[i + 1].argv = <<"send-keys", "-t", "claude", "Enter">>
                /\ tmux[i + 1].by = tmux[i].by)
    /\ [][/\ \A i, j \in (Len(tmux) + 1)..Len(tmux') : tmux'[i].by = tmux'[j].by
          /\ SubSeq(tmux', 1, Len(tmux)) = tmux
          /\ (\E s \in Streams : CaptureStep(s)) => tmux' = tmux]_vars

C18_Witness ==
    \E k \in DOMAIN replies :
        /\ k > 1
        /\ replies[k - 1].op = "send_key"
        /\ replies[k].op = "send_text"
        /\ replies[k].status = "sent"
        /\ pc[1] = "yield"
        /\ pc[2] = "sleep"
        /\ cycle[2][1].out = "ok"

\* C19 (a new stream has no baseline): a stream is opened with prev unset,
\* and a cycle that begins with prev unset and whose capture returns yields
\* exactly one event, which the client decodes to the whole captured text (the
\* pane as it is then, when tmux succeeded), be that text empty or not and
\* whatever the other streams have emitted.
C19_FirstCaptureEmits ==
    [][\A s \in Streams :
          /\ (pc[s] = "idle" /\ pc'[s] # "idle") => prev'[s] = <<>>
          /\ (CaptureStep(s) /\ prev[s] = <<>> /\ cycle'[s][1].out # "raise") =>
                LET c == cycle'[s][1]
                IN /\ Len(c.emitted) = 1
                   /\ ClientText(c.emitted[1]) = <<c.stdout>>
                   /\ c.out = "ok" => c.stdout = pane
                   /\ lastEvent'[s] = <<c.emitted[1]>>
                   /\ pc'[s] = "yield"]_vars

C19_Witness ==
    \E s, r \in Streams :
        /\ s # r
        /\ lastEvent[r] # <<>>
        /\ ClientText(lastEvent[r][1]) = << <<>> >>
        /\ pc[s] = "yield"
        /\ cycle[s][1].base = <<>>
        /\ cycle[s][1].out = "ok"
        /\ cycle[s][1].stdout = <<>>
        /\ Len(cycle[s][1].emitted) = 1
        /\ ClientText(lastEvent[s][1]) = << <<>> >>

\* The text of the latest event of stream s, as an option.
LastPayload(s) ==
    IF lastEvent[s] = <<>> THEN <<>> ELSE ClientText(lastEvent[s][1])

\* C20 (the baseline is the last payload): whenever a stream is between two
\* cycles, after cycles that changed, did not change or failed, its prev is the
\* text of the latest event it yielded, and unset when it has yielded none; and
\* an event a stream yields never has the text of the event it yielded before.
C20_BaselineIsLastPayload ==
    /\ [](\A s \in Streams :
            pc[s] \in {"sleep", "capture"} => prev[s] = LastPayload(s))
    /\ [][\A s \in Streams :
            (CaptureStep(s) /\ cycle'[s][1].emitted # <<>> /\ lastEvent[s] # <<>>) =>
                ClientText(cycle'[s][1].emitted[1]) # LastPayload(s)]_vars

C20_Witness ==
    \E s \in Streams :
        /\ pc[s] = "sleep"
        /\ cycle[s][1].out = "raise"
        /\ lastEvent[s] # <<>>
        /\ prev[s] = LastPayload(s)
        /\ prev[s] # <<pane>>
        /\ prev[s] # << <<>> >>

====
